---------------------------- MODULE Spec2Model ----------------------------
(***************************************************************************)
(* The authoritative server of ping-pong-arkanoid: the fixed-timestep game *)
(* loop (start_game_loop), the fan-out relay and the connection acceptor   *)
(* (start_server) and the two per-client sessions (handle_connection_impl),*)
(* together with the channels and byte streams that connect them.          *)
(*                                                                         *)
(* Numbers.  The program computes positions and velocities in f32.  The    *)
(* model keeps them as integers in units of 1/Scale: every position the    *)
(* program starts from and every paddle step is a whole number of world    *)
(* units, a ball step is velocity * 5, and the one division of the tick    *)
(* (the deflect factor, difference / 100) is truncated to 1/Scale where    *)
(* f32 rounds to 24 bits.  f32::EPSILON (about 1.2e-7) is below 1/Scale,   *)
(* so an epsilon-tolerant comparison with a constant is equality.  The     *)
(* f32 product 300 * (1/60) is 5 + 2^-21; added to a coordinate of 8 or    *)
(* more it rounds to a shift of exactly 5, which is the step modelled.     *)
(***************************************************************************)
EXTENDS Integers, Sequences, FiniteSets, TLC

\* ---------------------------------------------------------------- constants

Scale == 1000

WORLD_WIDTH  == 1920
WORLD_HEIGHT == 1080
BLOCK_SIZE   == 50
BLOCKS_IN_ROW == WORLD_WIDTH \div BLOCK_SIZE
PADDLE_WIDTH  == 200
PADDLE_HEIGHT == 20
BALL_RADIUS   == 10
BLOCK_ROWS    == 5
BLOCK_HITS_LIFE == 1
BALL_SPEED    == 300
PADDLE_SPEED  == 300
\* GAME_LOOP_TIMESTEP_SECONDS is 1.0 / 60.0; the model keeps its inverse.
TICKS_PER_SECOND == 60

\* raylib's KeyboardKey values, cast to u32 by client and server alike.
KEY_SPACE == 32
KEY_RIGHT == 262
KEY_LEFT  == 263
\* A key code that is none of the three: the server must ignore it.
KEY_OTHER == 65

\* hits_life is a usize.  TLC's integers are 32-bit, so the model's usize is
\* UsizeBits wide; only the wrap of 0 - 1 to the largest value matters.
UsizeBits == 30
UsizeModulus == 2 ^ UsizeBits

Players == {0, 1}

\* ------------------------------------------------------------------ bounds

\* Ticks the game loop runs in the full-system specification.
MaxTicks == 3
\* Snapshots the game loop may be ahead of the relay.
MaxBacklog == 1
\* Key events that may wait in the channel for one drain.
MaxPending == 2
\* Key codes each client writes.
MaxKeys == 1
\* Frames a send stream holds before the client reads (flow control).
TxWindow == 1
\* SpecSlow: ticks run.
SlowTicks == 4
\* SpecLaunch: ticks during which a launch key may arrive, and ticks run.
LaunchWindow == 8
LaunchTicks == 420
\* SpecMiss: ticks run.
MissTicks == 24
\* SpecIntents: ticks run.
IntentTicks == 2

\* SpecDrain: ticks run.
DrainTicks == 12
\* SpecChase: the ticks LEFT is held, the tick RIGHT is first held, the
\* ticks it is held, and the ticks run.
ChaseLeftTicks == 10
ChaseRightFrom == 14
ChaseRightTicks == 75
ChaseTicks == 205

\* -------------------------------------------------------------------- state

VARIABLES
    world_data,     \* start_game_loop's world_data: the last snapshot built
    loop_state,     \* "running", or "panicked" once the game-loop task aborted
    overflow_checks,\* build profile w.r.t. integer overflow: "unset", "on", "off"
    ticks,          \* history: the number of snapshots published so far
    key_chan,       \* player_key_event channel: intents not yet drained
    world_chan,     \* world_data channel: snapshots not yet taken by start_server
    relay_state,    \* start_server: "init" before line 252 returns, then
                    \* "relaying", and "ended" once the relay loop has left
    slot,           \* the two watch channels: value and per-receiver unseen flag
    sess_state,     \* per player id: where its session is (see SessionStates)
    read_buf,       \* per session: bytes held by its pending read_u32 future
    out_frame,      \* per session: the snapshot it is writing, or NoFrame
    rx,             \* per session: bytes arrived on its receive stream, unread
    net_in,         \* per session: bytes the client wrote, still in flight
    tx,             \* per session: items written to its send stream, unread
    keys_written,   \* history, per client: the key codes it wrote, in order
    keys_forwarded, \* history, per session: the key codes it forwarded
    last_frame,     \* history, per session: tick number of the last frame written
    drain,          \* the drain loop in progress: << >> outside it, else one
                    \* element, the loop's paddles and balls so far
    owed,           \* history: the key events pushed and not applied yet
    x_start         \* history: paddle 0's x when scenario B began, 0 before

game_vars == <<world_data, loop_state, overflow_checks, ticks, drain, owed,
               x_start>>
relay_vars == <<relay_state, slot>>
session_vars == <<sess_state, read_buf, out_frame, keys_forwarded, last_frame>>
stream_vars == <<rx, net_in, tx, keys_written>>

vars == <<world_data, loop_state, overflow_checks, ticks, key_chan, world_chan,
          relay_state, slot, sess_state, read_buf, out_frame, rx, net_in, tx,
          keys_written, keys_forwarded, last_frame, drain, owed, x_start>>

SessionStates ==
    { "NotAccepted",  \* start_server has not accepted this connection yet
      "Connecting",   \* handle_connection_impl before its loop (lines 324-334)
      "Select",       \* in select!, both futures pending (line 339)
      "Changed",      \* changed() returned, the slot not read yet (line 343)
      "Writing",      \* the frame is being written (lines 347-349)
      "Closed" }      \* handle_connection_impl has returned

NoFrame == [seq |-> 0]

\* ------------------------------------------------------------ fixed point

Abs(x) == IF x < 0 THEN -x ELSE x

\* Division truncating toward zero (TLA+'s \div floors).
TruncDiv(a, b) == IF a >= 0 THEN a \div b ELSE -((-a) \div b)

Half(n) == (n * Scale) \div 2

\* ------------------------------------------------------------ world model

Vec(x, y) == [x |-> x, y |-> y]

BlockAt(row_index, block_index) ==
    [ position |->
        Vec( (block_index * (BLOCK_SIZE + 1)) * Scale + Half(BLOCK_SIZE),
             (row_index * (BLOCK_SIZE + 1)) * Scale + Half(BLOCK_SIZE)
                + Half(WORLD_HEIGHT)
                - (BLOCK_SIZE * 2 * Scale + Half(BLOCK_SIZE)) ),
      hits_life |-> BLOCK_HITS_LIFE ]

InitialBlocks ==
    [ n \in 1..(BLOCK_ROWS * BLOCKS_IN_ROW) |->
        BlockAt((n - 1) \div BLOCKS_IN_ROW, (n - 1) % BLOCKS_IN_ROW) ]

InitialPaddles ==
    << [ id |-> 1,
         position |-> Vec(Half(WORLD_WIDTH), PADDLE_HEIGHT * Scale) ],
       [ id |-> 0,
         position |-> Vec(Half(WORLD_WIDTH),
                          (WORLD_HEIGHT - PADDLE_HEIGHT) * Scale) ] >>

InitialBalls ==
    << [ id |-> 1,
         position |-> Vec(InitialPaddles[1].position.x,
                          InitialPaddles[1].position.y + Half(PADDLE_HEIGHT)
                            + BALL_RADIUS * Scale),
         velocity |-> Vec(0, 0),
         is_free |-> FALSE ],
       [ id |-> 0,
         position |-> Vec(InitialPaddles[2].position.x,
                          InitialPaddles[2].position.y - Half(PADDLE_HEIGHT)
                            - BALL_RADIUS * Scale),
         velocity |-> Vec(0, 0),
         is_free |-> FALSE ] >>

create_world_data ==
    [ blocks |-> InitialBlocks, paddles |-> InitialPaddles, balls |-> InitialBalls ]

\* ------------------------------------------------------- the tick: intents

PaddleStep == TruncDiv(PADDLE_SPEED * Scale, TICKS_PER_SECOND)

\* iter().position(|p| p.id == id): the first index holding id, 0 for None.
PositionOf(seq, id) ==
    LET hits == {i \in DOMAIN seq : seq[i].id = id}
    IN  IF hits = {} THEN 0 ELSE CHOOSE i \in hits : \A j \in hits : i <= j

\* A paddle step that leaves the timestep out.
MovePaddleNoTimestep(paddle, key_code) ==
    IF key_code = KEY_LEFT
    THEN [paddle EXCEPT !.position.x = paddle.position.x - PADDLE_SPEED * Scale]
    ELSE IF key_code = KEY_RIGHT
    THEN [paddle EXCEPT !.position.x = paddle.position.x + PADDLE_SPEED * Scale]
    ELSE paddle

MovePaddle(paddle, key_code) ==
    LET x0 == paddle.position.x
        x1 == IF key_code = KEY_LEFT THEN x0 - PaddleStep ELSE x0
        x2 == IF key_code = KEY_RIGHT THEN x1 + PaddleStep ELSE x1
    IN  [paddle EXCEPT !.position.x = x2]

\* A launch that does not look at is_free.
LaunchBallAlways(ball) == [ball EXCEPT !.velocity = Vec(0, -Scale), !.is_free = TRUE]

LaunchBall(ball) ==
    IF ~ball.is_free
    THEN [ball EXCEPT !.velocity = Vec(0, -Scale), !.is_free = TRUE]
    ELSE ball

\* One iteration of the drain loop.  st = [paddles, balls, panicked].
ApplyEvent(st, event) ==
    LET index == PositionOf(st.paddles, event.player_id)
        ball_index == PositionOf(st.balls, event.player_id)
    IN  IF st.panicked THEN st
        ELSE IF index = 0 THEN [st EXCEPT !.panicked = TRUE]
        ELSE LET moved == [st EXCEPT !.paddles[index] =
                                MovePaddle(st.paddles[index], event.key_code)]
             IN  IF event.key_code # KEY_SPACE THEN moved
                 ELSE IF ball_index = 0 THEN [moved EXCEPT !.panicked = TRUE]
                 ELSE [moved EXCEPT !.balls[ball_index] =
                                LaunchBall(moved.balls[ball_index])]

RECURSIVE ApplyEvents(_, _)
\* while let Ok(event) = try_recv(): every queued event, in order.
ApplyEvents(st, events) ==
    IF events = << >> THEN st
    ELSE ApplyEvents(ApplyEvent(st, Head(events)), Tail(events))

\* ------------------------------------------------------- the tick: physics

\* A clamp that forgets the right edge.
ClampPaddleLeftOnly(paddle) ==
    IF paddle.position.x - Half(PADDLE_WIDTH) <= 0
    THEN [paddle EXCEPT !.position.x = Half(PADDLE_WIDTH)]
    ELSE paddle

ClampPaddle(paddle) ==
    LET x0 == paddle.position.x
        x1 == IF x0 - Half(PADDLE_WIDTH) <= 0 THEN Half(PADDLE_WIDTH) ELSE x0
        x2 == IF x1 + Half(PADDLE_WIDTH) >= WORLD_WIDTH * Scale
              THEN WORLD_WIDTH * Scale - Half(PADDLE_WIDTH) ELSE x1
    IN  [paddle EXCEPT !.position.x = x2]

\* The condition of the wall-reflection step.
AtWall(ball) ==
    \/ ball.position.x < 0 \/ ball.position.x = 0
    \/ ball.position.x + BALL_RADIUS * Scale > WORLD_WIDTH * Scale
    \/ ball.position.x = WORLD_WIDTH * Scale

ReflectAtWall(ball) ==
    IF AtWall(ball) THEN [ball EXCEPT !.velocity.x = -ball.velocity.x] ELSE ball

\* The predicate of balls.retain.
InBounds(ball) ==
    /\ (ball.position.y <= 0) = FALSE
    /\ (ball.position.y + BALL_RADIUS * Scale >= WORLD_HEIGHT * Scale) = FALSE

\* An overlap test that counts touching edges as a collision.
is_ball_touching_object(ball, position, width, height) ==
    /\ ball.position.x - BALL_RADIUS * Scale <= position.x + Half(width)
    /\ ball.position.x + BALL_RADIUS * Scale >= position.x - Half(width)
    /\ ball.position.y - BALL_RADIUS * Scale <= position.y + Half(height)
    /\ ball.position.y + BALL_RADIUS * Scale >= position.y - Half(height)

is_ball_collided_with_object(ball, position, width, height) ==
    LET ball_left   == ball.position.x - BALL_RADIUS * Scale
        ball_right  == ball.position.x + BALL_RADIUS * Scale
        ball_top    == ball.position.y - BALL_RADIUS * Scale
        ball_bottom == ball.position.y + BALL_RADIUS * Scale
        object_left   == position.x - Half(width)
        object_right  == position.x + Half(width)
        object_top    == position.y - Half(height)
        object_bottom == position.y + Half(height)
    IN  /\ ball_left < object_right
        /\ ball_right > object_left
        /\ ball_top < object_bottom
        /\ ball_bottom > object_top

is_ball_hit_top_or_bottom_of_block(ball, block) ==
    Abs(ball.position.y - block.position.y) > Abs(ball.position.x - block.position.x)

\* The body of the paddle loop for one ball and one paddle.
HitPaddle(ball, paddle) ==
    IF is_ball_collided_with_object(ball, paddle.position, PADDLE_WIDTH, PADDLE_HEIGHT)
    THEN LET centers_difference == ball.position.x - paddle.position.x
             deflect_factor == TruncDiv(centers_difference * Scale, Half(PADDLE_WIDTH))
             vx == IF centers_difference # 0 THEN deflect_factor ELSE ball.velocity.x
         IN  [ball EXCEPT !.velocity = Vec(vx, -ball.velocity.y)]
    ELSE ball

RECURSIVE HitPaddles(_, _)
HitPaddles(ball, paddles) ==
    IF paddles = << >> THEN ball
    ELSE HitPaddles(HitPaddle(ball, Head(paddles)), Tail(paddles))

\* The first block, in sequence order, that the ball overlaps; 0 for none.
FirstHitBlock(ball, blocks) ==
    LET hits == {i \in DOMAIN blocks :
                    is_ball_collided_with_object(ball, blocks[i].position,
                                                 BLOCK_SIZE, BLOCK_SIZE)}
    IN  IF hits = {} THEN 0 ELSE CHOOSE i \in hits : \A j \in hits : i <= j

BounceOffBlock(ball, block) ==
    IF is_ball_hit_top_or_bottom_of_block(ball, block)
    THEN [ball EXCEPT !.velocity.y = -ball.velocity.y]
    ELSE [ball EXCEPT !.velocity.x = -ball.velocity.x]

\* block.hits_life -= 1 without overflow checks: the usize wraps.
DecrementHits(hits_life) == (hits_life - 1) % UsizeModulus

\* A block loop without its break: the ball wears down every block it
\* overlaps.
HitEveryBlock(acc, ball, i) ==
    IF i = 0
    THEN [acc EXCEPT !.balls = Append(acc.balls, ball)]
    ELSE [ balls |-> Append(acc.balls, BounceOffBlock(ball, acc.blocks[i])),
           blocks |-> [j \in DOMAIN acc.blocks |->
                        IF is_ball_collided_with_object(ball, acc.blocks[j].position,
                                                        BLOCK_SIZE, BLOCK_SIZE)
                        THEN [acc.blocks[j] EXCEPT !.hits_life = DecrementHits(@)]
                        ELSE acc.blocks[j]],
           underflow |-> acc.underflow \/ acc.blocks[i].hits_life = 0 ]

\* The body of the block loop for ball, whose first overlapping block is
\* blocks[i] (i = 0: none).  acc = [balls, blocks, underflow]; underflow
\* tells that some decrement started at 0.
HitBlock(acc, ball, i) ==
    IF i = 0
    THEN [acc EXCEPT !.balls = Append(acc.balls, ball)]
    ELSE [ balls |-> Append(acc.balls, BounceOffBlock(ball, acc.blocks[i])),
           blocks |-> [acc.blocks EXCEPT ![i].hits_life =
                            DecrementHits(acc.blocks[i].hits_life)],
           underflow |-> acc.underflow \/ acc.blocks[i].hits_life = 0 ]

RECURSIVE HitBlocks(_, _, _)
\* The block loop: ball k sees the blocks as balls 1..k-1 left them.
HitBlocks(acc, balls, k) ==
    IF k > Len(balls) THEN acc
    ELSE HitBlocks(HitBlock(acc, balls[k], FirstHitBlock(balls[k], acc.blocks)),
                   balls, k + 1)

\* The predicate of blocks.retain.
\* A retain that keeps a block whatever hits it has left.
BlockKept(block) == block.hits_life >= 0

BlockAlive(block) == block.hits_life # 0

Integrate(ball) ==
    IF ball.is_free
    THEN [ball EXCEPT
            !.position.x = ball.position.x
                + TruncDiv(ball.velocity.x * BALL_SPEED, TICKS_PER_SECOND),
            !.position.y = ball.position.y
                + TruncDiv(ball.velocity.y * BALL_SPEED, TICKS_PER_SECOND)]
    ELSE ball

\* A tick that puts a lost ball back on its paddle.
CloneWorldRespawning(w) ==
    [ blocks |-> w.blocks, paddles |-> w.paddles,
      balls |-> IF Len(w.balls) < Len(InitialBalls) THEN InitialBalls ELSE w.balls ]

\* A tick that starts from the paddles of create_world_data.
CloneWorldFresh(w) == [blocks |-> w.blocks, paddles |-> InitialPaddles, balls |-> w.balls]

\* Lines 62, 63 and 140: the tick works on clones of the last world_data.
CloneWorld(w) == [blocks |-> w.blocks, paddles |-> w.paddles, balls |-> w.balls]

\* Lines 158-168: prune the blocks, move the balls, store the world.
AfterBlocks(paddles, hit) ==
    [ world |-> [ blocks |-> SelectSeq(hit.blocks, BlockAlive),
                  paddles |-> paddles,
                  balls |-> [i \in DOMAIN hit.balls |-> Integrate(hit.balls[i])] ],
      panicked |-> FALSE,
      underflow |-> hit.underflow ]

\* Lines 122-156: the paddle loop, then the block loop.
AfterWalls(w, paddles, balls) ==
    AfterBlocks(paddles,
                HitBlocks([balls |-> << >>, blocks |-> w.blocks, underflow |-> FALSE],
                          [i \in DOMAIN balls |-> HitPaddles(balls[i], paddles)], 1))

\* Lines 95-120: clamp the paddles, reflect at the walls, drop lost balls.
AfterIntents(w, applied) ==
    IF applied.panicked
    THEN [world |-> w, panicked |-> TRUE, underflow |-> FALSE]
    ELSE AfterWalls(w,
                    [i \in DOMAIN applied.paddles |-> ClampPaddle(applied.paddles[i])],
                    SelectSeq([i \in DOMAIN applied.balls |->
                                    ReflectAtWall(applied.balls[i])], InBounds))

\* One iteration of the game loop on world w with the drained events:
\* [world, panicked, underflow].  A panic of the drain loop leaves world = w.
Step(w, events) ==
    AfterIntents(w, ApplyEvents([paddles |-> w.paddles, balls |-> w.balls,
                                 panicked |-> FALSE], events))

\* ------------------------------------------------------------- game loop

\* The message the game loop sends: the snapshot, with its tick number as
\* history (the program's WorldData carries no number).
Snapshot(seq, w) == [seq |-> seq, world |-> w]

\* The game-loop task aborts: its receiver of key events and its sender of
\* snapshots are dropped with it.
Abort ==
    /\ loop_state' = "panicked"
    /\ key_chan' = << >>
    /\ UNCHANGED <<world_data, ticks, world_chan>>

Publish(w, seq) ==
    /\ world_data' = w
    /\ ticks' = seq
    /\ world_chan' = Append(world_chan, Snapshot(seq, w))
    /\ key_chan' = << >>
    /\ UNCHANGED loop_state

\* The end of an iteration whose work gave r: the send of line 170, or the
\* abort.  seq is the number the history gives the snapshot.
Outcome(r, seq) ==
    IF r.panicked
    THEN Abort /\ UNCHANGED overflow_checks
    ELSE IF ~r.underflow
    THEN Publish(r.world, seq) /\ UNCHANGED overflow_checks
    ELSE \* 0 - 1 on a usize: a panic with overflow checks (the debug
         \* profile), a wrap without them (the release profile).
         \/ /\ overflow_checks \in {"unset", "on"}
            /\ overflow_checks' = "on"
            /\ Abort
         \/ /\ overflow_checks \in {"unset", "off"}
            /\ overflow_checks' = "off"
            /\ Publish(r.world, seq)

\* One iteration of start_game_loop's loop, from the drain to the send.
GameTick(seq) ==
    /\ loop_state = "running"
    /\ drain = << >>
    /\ Outcome(Step(CloneWorld(world_data), key_chan), seq)
    /\ UNCHANGED <<drain, owed, x_start, relay_vars, session_vars, stream_vars>>

\* player_key_event_send_channel.send(PlayerKeyEvent{player_id, key_code})
SendKeyEvent(chan, player_id, key_code) ==
    Append(chan, [player_id |-> player_id, key_code |-> key_code])

\* A session forwards one key event (line 341), seen from the game loop:
\* the event is appended to the channel the next drain empties.
PushIntent(player_id, key_code) ==
    /\ loop_state = "running"
    /\ key_chan' = SendKeyEvent(key_chan, player_id, key_code)
    /\ UNCHANGED <<game_vars, world_chan, relay_vars, session_vars, stream_vars>>

\* The drain loop's paddles and balls: clones of the last world_data
\* (lines 62-63) until the first event, then what the events made of them.
Working(w) ==
    IF drain = << >>
    THEN [paddles |-> w.paddles, balls |-> w.balls, panicked |-> FALSE]
    ELSE drain[1]

\* The end of one iteration of the drain loop that left st: the next
\* try_recv, or the abort of an unwrap on None.
Drained(st) ==
    IF st.panicked
    THEN /\ Abort
         /\ drain' = << >>
         /\ UNCHANGED owed
    ELSE /\ drain' = <<st>>
         /\ key_chan' = Tail(key_chan)
         /\ owed' = Tail(owed)
         /\ UNCHANGED <<world_data, loop_state, ticks, world_chan>>

\* Lines 65-92: try_recv returns an event and the loop body applies it.
DrainEvent ==
    /\ loop_state = "running"
    /\ key_chan # << >>
    /\ Drained(ApplyEvent(Working(CloneWorld(world_data)), Head(key_chan)))
    /\ UNCHANGED <<overflow_checks, x_start, relay_vars, session_vars, stream_vars>>

\* Lines 65 and 95-170: try_recv finds the channel empty, the drain loop
\* ends and the rest of the iteration runs.
DrainEmpty(seq) ==
    /\ loop_state = "running"
    /\ key_chan = << >>
    /\ Outcome(AfterIntents(CloneWorld(world_data), Working(CloneWorld(world_data))), seq)
    /\ drain' = << >>
    /\ UNCHANGED <<owed, x_start, relay_vars, session_vars, stream_vars>>

\* PushIntent, with the event recorded as owed.
PushOwed(player_id, key_code) ==
    /\ loop_state = "running"
    /\ key_chan' = SendKeyEvent(key_chan, player_id, key_code)
    /\ owed' = SendKeyEvent(owed, player_id, key_code)
    /\ UNCHANGED <<world_data, loop_state, overflow_checks, ticks, drain, x_start,
                   world_chan, relay_vars, session_vars, stream_vars>>

\* ----------------------------------------------------- start_server: relay

\* A watch receiver exists until the session that owns it has returned.
ReceiverAlive(s) == sess_state[s] # "Closed"

\* A send that gives up for both players as soon as one receiver is gone.
WatchSendIfAllAlive(s, data) ==
    IF \A r \in Players : sess_state[r] # "Closed"
    THEN [value |-> data, unseen |-> TRUE]
    ELSE slot[s]

\* watch::Sender::send: with no receiver left it fails and stores nothing.
WatchSend(s, data) ==
    IF ReceiverAlive(s) THEN [value |-> data, unseen |-> TRUE] ELSE slot[s]

\* Lines 252-254: the first snapshot becomes the initial value of both
\* watch channels; an initial value counts as seen.
RelayInit ==
    /\ relay_state = "init"
    /\ world_chan # << >>
    /\ slot' = [s \in Players |-> [value |-> Head(world_chan), unseen |-> FALSE]]
    /\ world_chan' = Tail(world_chan)
    /\ relay_state' = "relaying"
    /\ UNCHANGED <<game_vars, key_chan, session_vars, stream_vars>>

\* A relay that hands each snapshot to the sessions themselves and so
\* waits while one of them is still writing the snapshot before.
RelayAwaitingWriters ==
    /\ relay_state = "relaying"
    /\ world_chan # << >>
    /\ \A s \in Players : sess_state[s] # "Writing"
    /\ slot' = [s \in Players |->
                  IF sess_state[s] # "Closed"
                  THEN [value |-> Head(world_chan), unseen |-> TRUE]
                  ELSE slot[s]]
    /\ world_chan' = Tail(world_chan)
    /\ UNCHANGED <<game_vars, key_chan, relay_state, session_vars, stream_vars>>

\* Lines 257-260: one iteration of the relay loop.
Relay ==
    /\ relay_state = "relaying"
    /\ world_chan # << >>
    /\ slot' = [s \in Players |-> WatchSend(s, Head(world_chan))]
    /\ world_chan' = Tail(world_chan)
    /\ UNCHANGED <<game_vars, key_chan, relay_state, session_vars, stream_vars>>

\* recv() returns None once the game loop's sender is gone and the channel
\* is empty: the relay task ends and drops both watch senders.
RelayEnd ==
    /\ relay_state = "relaying"
    /\ world_chan = << >>
    /\ loop_state = "panicked"
    /\ relay_state' = "ended"
    /\ UNCHANGED <<game_vars, key_chan, world_chan, slot, session_vars, stream_vars>>

\* ------------------------------------------------------------ byte streams

\* write_u32 / read_u32: four bytes, most significant first.
ToBytes(n) ==
    << n \div 16777216, (n \div 65536) % 256, (n \div 256) % 256, n % 256 >>

FromBytes(b) == ((b[1] * 256 + b[2]) * 256 + b[3]) * 256 + b[4]

Take(seq, n) == SubSeq(seq, 1, n)
Drop(seq, n) == SubSeq(seq, n + 1, Len(seq))

\* A session that writes the same id byte whichever connection it serves.
IdItemOfFirst(player_id) == [kind |-> "id", id |-> 0]

\* The items a session writes to its send stream.
IdItem(player_id) == [kind |-> "id", id |-> player_id]
FrameItem(snapshot) == [kind |-> "frame", snapshot |-> snapshot]

\* The client of player s writes one key code (client main.rs, lines 58-71).
ClientWriteKey(s, key_code) ==
    /\ sess_state[s] \notin {"NotAccepted", "Closed"}
    /\ Len(keys_written[s]) < MaxKeys
    /\ net_in' = [net_in EXCEPT ![s] = @ \o ToBytes(key_code)]
    /\ keys_written' = [keys_written EXCEPT ![s] = Append(@, key_code)]
    /\ UNCHANGED <<game_vars, key_chan, world_chan, relay_vars, session_vars, rx, tx>>

\* The transport hands the next n bytes in flight to the receive stream.
Deliver(s, n) ==
    /\ sess_state[s] # "Closed"
    /\ n \in 1..Len(net_in[s])
    /\ rx' = [rx EXCEPT ![s] = @ \o Take(net_in[s], n)]
    /\ net_in' = [net_in EXCEPT ![s] = Drop(@, n)]
    /\ UNCHANGED <<game_vars, key_chan, world_chan, relay_vars, session_vars,
                   tx, keys_written>>

\* The client reads the next item of its receive stream.
ClientRead(s) ==
    /\ tx[s] # << >>
    /\ tx' = [tx EXCEPT ![s] = Tail(@)]
    /\ UNCHANGED <<game_vars, key_chan, world_chan, relay_vars, session_vars,
                   rx, net_in, keys_written>>

\* ------------------------------------------------- start_server: sessions

\* Lines 263-285: the acceptor takes connection 0, then connection 1, and
\* spawns handle_connection with the player id and the watch receiver.
Accept(s) ==
    /\ relay_state # "init"
    /\ sess_state[s] = "NotAccepted"
    /\ s = 1 => sess_state[0] # "NotAccepted"
    /\ sess_state' = [sess_state EXCEPT ![s] = "Connecting"]
    /\ UNCHANGED <<game_vars, key_chan, world_chan, relay_vars, read_buf, out_frame,
                   keys_forwarded, last_frame, stream_vars>>

\* Lines 324-336: session request, bidirectional stream, the player id byte.
Handshake(s) ==
    /\ sess_state[s] = "Connecting"
    /\ sess_state' = [sess_state EXCEPT ![s] = "Select"]
    /\ tx' = [tx EXCEPT ![s] = Append(@, IdItem(s))]
    /\ UNCHANGED <<game_vars, key_chan, world_chan, relay_vars, read_buf, out_frame,
                   keys_forwarded, last_frame, rx, net_in, keys_written>>

\* handle_connection_impl returns: its futures, streams and receiver drop.
Close(s) ==
    /\ sess_state' = [sess_state EXCEPT ![s] = "Closed"]
    /\ read_buf' = [read_buf EXCEPT ![s] = << >>]
    /\ out_frame' = [out_frame EXCEPT ![s] = NoFrame]

\* An I/O error at an await of the handshake, of the read arm or of a write.
SessionError(s) ==
    /\ sess_state[s] \in {"Connecting", "Select", "Writing"}
    /\ Close(s)
    /\ UNCHANGED <<game_vars, key_chan, world_chan, relay_vars, keys_forwarded,
                   last_frame, stream_vars>>

\* What is left of the read_u32 future's bytes when select! drops it.
SelectDrop(held) == << >>

\* receive_channel.borrow().clone()
BorrowValue(s) == slot[s].value

\* What one poll of the read_u32 future takes from the receive stream.
ReadTake(s) == IF Len(rx[s]) < 4 - Len(read_buf[s]) THEN Len(rx[s]) ELSE 4 - Len(read_buf[s])

\* Lines 340-342: the read arm is polled.  The future keeps the bytes it
\* has taken; with the fourth byte it completes and the event is forwarded.
\* Forwarding fails, and the session returns, once the game loop is gone.
PollRead(s) ==
    /\ sess_state[s] = "Select"
    /\ rx[s] # << >>
    /\ LET got == read_buf[s] \o Take(rx[s], ReadTake(s))
       IN  /\ rx' = [rx EXCEPT ![s] = Drop(@, ReadTake(s))]
           /\ IF Len(got) < 4
              THEN /\ read_buf' = [read_buf EXCEPT ![s] = got]
                   /\ UNCHANGED <<key_chan, keys_forwarded, sess_state, out_frame>>
              ELSE IF loop_state = "running"
              THEN /\ key_chan' = SendKeyEvent(key_chan, s, FromBytes(got))
                   /\ keys_forwarded' = [keys_forwarded EXCEPT ![s] = Append(@, FromBytes(got))]
                   /\ read_buf' = [read_buf EXCEPT ![s] = << >>]
                   /\ UNCHANGED <<sess_state, out_frame>>
              ELSE /\ Close(s)
                   /\ UNCHANGED <<key_chan, keys_forwarded>>
    /\ UNCHANGED <<game_vars, world_chan, relay_vars, last_frame, net_in, tx,
                   keys_written>>

\* A notification that is delivered for the first frame only.
ChangedOnce(s) == (slot[s].unseen \/ relay_state = "ended") /\ last_frame[s] = 0

\* changed() is ready: the slot holds a value this receiver has not seen,
\* or the sender is gone (the error is matched by `_` like a change).
ChangedReady(s) == slot[s].unseen \/ relay_state = "ended"

\* Line 343: the changed arm wins the select.  The value is marked seen;
\* select! drops the read_u32 future with the bytes it holds.
PollChanged(s) ==
    /\ sess_state[s] = "Select"
    /\ ChangedReady(s)
    /\ slot' = [slot EXCEPT ![s].unseen = FALSE]
    /\ read_buf' = [read_buf EXCEPT ![s] = SelectDrop(read_buf[s])]
    /\ sess_state' = [sess_state EXCEPT ![s] = "Changed"]
    /\ UNCHANGED <<game_vars, key_chan, world_chan, relay_state, out_frame,
                   keys_forwarded, last_frame, stream_vars>>

\* Lines 344-346: borrow().clone() reads the slot as it is now; the
\* snapshot is serialized into the frame to write.
Borrow(s) ==
    /\ sess_state[s] = "Changed"
    /\ out_frame' = [out_frame EXCEPT ![s] = BorrowValue(s)]
    /\ sess_state' = [sess_state EXCEPT ![s] = "Writing"]
    /\ UNCHANGED <<game_vars, key_chan, world_chan, relay_vars, read_buf,
                   keys_forwarded, last_frame, stream_vars>>

FramesIn(stream) == Len(SelectSeq(stream, LAMBDA item : item.kind = "frame"))

\* The send stream takes a frame while the client's flow-control window
\* has room for it.
CanWrite(s) == FramesIn(tx[s]) < TxWindow

\* Lines 347-349: length prefix, payload, flush.
WriteFrame(s) ==
    /\ sess_state[s] = "Writing"
    /\ CanWrite(s)
    /\ tx' = [tx EXCEPT ![s] = Append(@, FrameItem(out_frame[s]))]
    /\ last_frame' = [last_frame EXCEPT ![s] = out_frame[s].seq]
    /\ out_frame' = [out_frame EXCEPT ![s] = NoFrame]
    /\ sess_state' = [sess_state EXCEPT ![s] = "Select"]
    /\ UNCHANGED <<game_vars, key_chan, world_chan, relay_vars, read_buf,
                   keys_forwarded, rx, net_in, keys_written>>

\* ------------------------------------------------------------------ Init

Init ==
    /\ world_data = create_world_data
    /\ loop_state = "running"
    /\ overflow_checks = "unset"
    /\ ticks = 0
    /\ key_chan = << >>
    /\ world_chan = << >>
    /\ relay_state = "init"
    /\ slot = [s \in Players |-> [value |-> NoFrame, unseen |-> FALSE]]
    /\ sess_state = [s \in Players |-> "NotAccepted"]
    /\ read_buf = [s \in Players |-> << >>]
    /\ out_frame = [s \in Players |-> NoFrame]
    /\ rx = [s \in Players |-> << >>]
    /\ net_in = [s \in Players |-> << >>]
    /\ tx = [s \in Players |-> << >>]
    /\ keys_written = [s \in Players |-> << >>]
    /\ keys_forwarded = [s \in Players |-> << >>]
    /\ last_frame = [s \in Players |-> 0]
    /\ drain = << >>
    /\ owed = << >>
    /\ x_start = 0

\* ------------------------------------------------- game-loop specifications
\* Each specification below runs the game loop and the relay against one
\* kind of player; the sessions are left out and PushIntent stands for the
\* forwarding of a key event.

\* A tick the history counts, with the relay at most MaxBacklog behind.
Tick ==
    /\ Len(world_chan) < MaxBacklog
    /\ GameTick(ticks + 1)

\* A tick the history does not count.
UncountedTick ==
    /\ Len(world_chan) < MaxBacklog
    /\ GameTick(ticks)

BallOf(p) == PositionOf(world_data.balls, p)
PaddleOf(p) == world_data.paddles[PositionOf(world_data.paddles, p)]

Queued(p, key_code) ==
    \E i \in DOMAIN key_chan :
        key_chan[i].player_id = p /\ key_chan[i].key_code = key_code

\* Player p's ball still sits on its paddle and p has not pressed launch.
Attached(p) ==
    /\ BallOf(p) # 0
    /\ ~world_data.balls[BallOf(p)].is_free
    /\ ~Queued(p, KEY_SPACE)

\* SpecLaunch: both players may launch during the first LaunchWindow ticks;
\* nobody moves a paddle.
LaunchIntent ==
    \E p \in Players :
        /\ ticks < LaunchWindow
        /\ Len(key_chan) < MaxPending
        /\ PushIntent(p, KEY_SPACE)

LaunchTick == ticks < LaunchTicks /\ Tick

NextLaunch == LaunchIntent \/ LaunchTick \/ RelayInit \/ Relay \/ RelayEnd

SpecLaunch == Init /\ [][NextLaunch]_vars

\* SpecPaddle: one player (whoever moves first) moves a paddle left and
\* right for as long as they like; nobody launches.
OnlyMover(p) ==
    /\ PaddleOf(1 - p).position.x = Half(WORLD_WIDTH)
    /\ \A i \in DOMAIN key_chan : key_chan[i].player_id = p

PaddleIntent ==
    \E p \in Players, k \in {KEY_LEFT, KEY_RIGHT} :
        /\ OnlyMover(p)
        /\ Len(key_chan) < MaxPending
        /\ PushIntent(p, k)

NextPaddle == PaddleIntent \/ UncountedTick \/ RelayInit \/ Relay

SpecPaddle == Init /\ [][NextPaddle]_vars

\* SpecMiss: player 1 moves the paddle left while the ball is attached,
\* and presses launch while it is attached and again once it is gone.
MissIntent ==
    /\ Len(key_chan) < MaxPending
    /\ \/ Attached(1) /\ PushIntent(1, KEY_LEFT)
       \/ Attached(1) /\ PushIntent(1, KEY_SPACE)
       \/ BallOf(1) = 0 /\ PushIntent(1, KEY_SPACE)

MissTick == ticks < MissTicks /\ Tick

NextMiss == MissIntent \/ MissTick \/ RelayInit \/ Relay \/ RelayEnd

SpecMiss == Init /\ [][NextMiss]_vars

\* SpecChase: player 1 holds LEFT for the first ChaseLeftTicks ticks, then
\* presses launch, then holds RIGHT from tick ChaseRightFrom for
\* ChaseRightTicks ticks, and holds a key the game does not know the rest of
\* the time.  LEFT and RIGHT arrive MaxPending times per tick, the other
\* keys once.
ChaseKey ==
    IF ticks < ChaseLeftTicks THEN KEY_LEFT
    ELSE IF ticks = ChaseLeftTicks THEN KEY_SPACE
    ELSE IF ticks >= ChaseRightFrom /\ ticks < ChaseRightFrom + ChaseRightTicks
    THEN KEY_RIGHT
    ELSE KEY_OTHER

ChaseDue == IF ChaseKey \in {KEY_LEFT, KEY_RIGHT} THEN MaxPending ELSE 1

ChaseIntent == Len(key_chan) < ChaseDue /\ PushIntent(1, ChaseKey)

ChaseTick == ticks < ChaseTicks /\ Len(key_chan) = ChaseDue /\ Tick

NextChase == ChaseIntent \/ ChaseTick \/ RelayInit \/ Relay

SpecChase == Init /\ [][NextChase]_vars

\* SpecScenarioB: player 0 first moves the paddle anywhere, then sends one
\* KEY_RIGHT before each of TICKS_PER_SECOND ticks (one second of ticks).
PrepIntent ==
    \E k \in {KEY_LEFT, KEY_RIGHT} :
        /\ x_start = 0
        /\ Len(key_chan) < MaxPending
        /\ PushIntent(0, k)

PrepTick == x_start = 0 /\ UncountedTick

\* The scenario begins with nothing queued; the paddle's x is recorded.
BeginScenario ==
    /\ x_start = 0
    /\ key_chan = << >>
    /\ x_start' = PaddleOf(0).position.x
    /\ UNCHANGED <<world_data, loop_state, overflow_checks, ticks, drain, owed,
                   key_chan, world_chan, relay_vars, session_vars, stream_vars>>

ScenarioIntent ==
    /\ x_start # 0
    /\ ticks < TICKS_PER_SECOND
    /\ key_chan = << >>
    /\ PushIntent(0, KEY_RIGHT)

ScenarioTick ==
    /\ x_start # 0
    /\ ticks < TICKS_PER_SECOND
    /\ Len(key_chan) = 1
    /\ Tick

NextScenarioB ==
    \/ PrepIntent \/ PrepTick \/ BeginScenario
    \/ ScenarioIntent \/ ScenarioTick
    \/ RelayInit \/ Relay

SpecScenarioB == Init /\ [][NextScenarioB]_vars

\* SpecDrain: a game loop whose drain loop runs one try_recv at a time, so
\* that key events arrive during a drain.  Player 1 presses LEFT until the
\* paddle no longer reaches under the ball, then launch, and launch again
\* once the ball is gone.
DrainPaddle == Working(world_data).paddles[PositionOf(world_data.paddles, 1)]

\* The ball has been launched, or the launch is on its way.
DrainLaunched ==
    \/ Queued(1, KEY_SPACE)
    \/ \E k \in DOMAIN Working(world_data).balls :
          Working(world_data).balls[k].id = 1 /\ Working(world_data).balls[k].is_free

DrainKey ==
    IF BallOf(1) = 0 THEN KEY_SPACE
    ELSE IF DrainLaunched THEN KEY_OTHER
    ELSE IF DrainPaddle.position.x - PaddleStep * Len(key_chan)
                + Half(PADDLE_WIDTH) + BALL_RADIUS * Scale > Half(WORLD_WIDTH)
    THEN KEY_LEFT
    ELSE KEY_SPACE

DrainIntent ==
    /\ Len(key_chan) < MaxPending
    /\ DrainKey # KEY_OTHER
    /\ PushOwed(1, DrainKey)

DrainTick ==
    /\ ticks < DrainTicks
    /\ Len(world_chan) < MaxBacklog
    /\ DrainEmpty(ticks + 1)

NextDrain == DrainIntent \/ DrainEvent \/ DrainTick \/ RelayInit \/ Relay \/ RelayEnd

SpecDrain == Init /\ [][NextDrain]_vars

\* SpecIntents: both players send move and launch keys between drains; the
\* drain loop applies them one try_recv at a time.
AnyIntent ==
    \E p \in Players, k \in {KEY_LEFT, KEY_RIGHT, KEY_SPACE} :
        /\ drain = << >>
        /\ Len(key_chan) < MaxPending
        /\ PushOwed(p, k)

IntentTick ==
    /\ ticks < IntentTicks
    /\ Len(world_chan) < MaxBacklog
    /\ DrainEmpty(ticks + 1)

NextIntents == AnyIntent \/ DrainEvent \/ IntentTick \/ RelayInit \/ Relay

SpecIntents == Init /\ [][NextIntents]_vars

\* ------------------------------------------------- claims on the game loop

\* C1: the game loop never aborts: whatever key events the sessions deliver,
\* at whatever point of the game, every tick completes and publishes and the
\* loop is still running afterwards.
GameLoopNeverAborts == loop_state = "running"

BlockOk(before, block) ==
    /\ block.hits_life >= 1
    /\ \E i \in DOMAIN before :
          /\ before[i].position = block.position
          /\ block.hits_life <= before[i].hits_life

\* C2: from one published snapshot to the next, every block of the later
\* one has hits_life >= 1 and was in the earlier one with at least as many
\* hits left: hits never grow, a block at 0 is absent, an absent block never
\* comes back.
BlocksNeverGrow ==
    [][ \/ world_data'.blocks = world_data.blocks
        \/ \A j \in DOMAIN world_data'.blocks :
              BlockOk(world_data.blocks, world_data'.blocks[j]) ]_vars

PaddleOk(w, id) ==
    LET with_id == {i \in DOMAIN w.paddles : w.paddles[i].id = id}
    IN  /\ Cardinality(with_id) = 1
        /\ \A i \in with_id :
              /\ w.paddles[i].position.x >= Half(PADDLE_WIDTH)
              /\ w.paddles[i].position.x <= WORLD_WIDTH * Scale - Half(PADDLE_WIDTH)
              /\ \E k \in DOMAIN InitialPaddles :
                    /\ InitialPaddles[k].id = id
                    /\ InitialPaddles[k].position.y = w.paddles[i].position.y

\* C3: every published snapshot has exactly two paddles, one of id 0 and
\* one of id 1, each with x in [PADDLE_WIDTH/2, WORLD_WIDTH - PADDLE_WIDTH/2]
\* and with the y it was created with.
PaddlesStayInside ==
    /\ Len(world_data.paddles) = 2
    /\ \A id \in Players : PaddleOk(world_data, id)
    /\ \A n \in DOMAIN world_chan :
          /\ Len(world_chan[n].world.paddles) = 2
          /\ \A id \in Players : PaddleOk(world_chan[n].world, id)

\* A published snapshot in which an intent has moved a paddle up to an
\* edge of its range.
PaddleAtEdge ==
    /\ relay_state = "relaying"
    /\ \E i \in DOMAIN slot[0].value.world.paddles :
          slot[0].value.world.paddles[i].position.x \in
              {Half(PADDLE_WIDTH), WORLD_WIDTH * Scale - Half(PADDLE_WIDTH)}

\* C9: in every published snapshot every ball's horizontal extent lies
\* within the world: x - BALL_RADIUS >= 0 and x + BALL_RADIUS <= WORLD_WIDTH.
BallsStayInside ==
    \A i \in DOMAIN world_data.balls :
        /\ world_data.balls[i].position.x - BALL_RADIUS * Scale >= 0
        /\ world_data.balls[i].position.x + BALL_RADIUS * Scale <= WORLD_WIDTH * Scale

BallIds(w) == {w.balls[i].id : i \in DOMAIN w.balls}

\* C10: the ball ids of a published snapshot are among the ball ids of the
\* snapshot before it: no ball is added, no removed ball comes back.
BallsNeverAdded == [][BallIds(world_data') \subseteq BallIds(world_data)]_vars

\* Player 1's ball has left the world, and two snapshots have been
\* published without it.
BallGone ==
    /\ relay_state = "relaying"
    /\ slot[0].value.seq > 0
    /\ BallIds(slot[0].value.world) = {0}
    /\ \E n \in DOMAIN world_chan : BallIds(world_chan[n].world) = {0}

\* ----------------------------------------------------------- the server

ClientKeys == {KEY_SPACE, KEY_LEFT}

ServerTick == ticks < MaxTicks /\ Tick

\* SpecSession: only the first client connects; its stream does not fail.
NextSession ==
    \/ ServerTick
    \/ RelayInit
    \/ Relay
    \/ Accept(0)
    \/ Handshake(0)
    \/ PollRead(0)
    \/ PollChanged(0)
    \/ Borrow(0)
    \/ WriteFrame(0)
    \/ \E k \in ClientKeys : ClientWriteKey(0, k)
    \/ \E n \in 1..4 : Deliver(0, n)
    \/ ClientRead(0)

SpecSession == Init /\ [][NextSession]_vars

\* ------------------------------------------------- claims on one session

\* The session writes a frame in this step.
WritesFrame(s) == sess_state[s] = "Writing" /\ sess_state'[s] = "Select"

\* C4: every frame a session writes carries a snapshot of a later tick than
\* the frame it wrote before: never the same snapshot twice, never an older
\* one after a newer one.
FramesStrictlyNewer ==
    [][\A s \in Players : WritesFrame(s) => out_frame[s].seq > last_frame[s]]_vars

RECURSIVE BytesOf(_)
\* The bytes of a sequence of key codes on the wire.
BytesOf(keys) ==
    IF keys = << >> THEN << >> ELSE ToBytes(Head(keys)) \o BytesOf(Tail(keys))

\* C5: on a stream that has not failed, the key codes forwarded, followed
\* by the bytes the pending read holds, the bytes received and the bytes in
\* flight, are the key codes the client wrote: every key code is forwarded
\* once, unchanged and in order, and no received byte is discarded.
KeysForwardedIntact ==
    \A s \in Players :
        sess_state[s] # "Closed" =>
            BytesOf(keys_forwarded[s]) \o read_buf[s] \o rx[s] \o net_in[s]
                = BytesOf(keys_written[s])

\* The session's frame write has started and cannot complete: the client
\* has not read the frames before it.
WritePending(s) == sess_state[s] = "Writing" /\ ~CanWrite(s)

\* C6: while a snapshot write is pending, the session still reads the key
\* events its client has sent; while a read is pending, the session still
\* services a new-snapshot notification.
ArmsIndependent ==
    \A s \in Players :
        /\ (WritePending(s) /\ rx[s] # << >>) => ENABLED PollRead(s)
        /\ (sess_state[s] = "Select" /\ read_buf[s] # << >> /\ ChangedReady(s))
              => ENABLED PollChanged(s)

\* Spec: both clients connect and either stream may fail; the first client
\* sends keys, the second one only watches.
Next ==
    \/ ServerTick
    \/ RelayInit
    \/ Relay
    \/ \E s \in Players : Accept(s)
    \/ \E s \in Players : Handshake(s)
    \/ \E s \in Players : SessionError(s)
    \/ PollRead(0)
    \/ \E s \in Players : PollChanged(s)
    \/ \E s \in Players : Borrow(s)
    \/ \E s \in Players : WriteFrame(s)
    \/ ClientWriteKey(0, KEY_LEFT)
    \/ \E n \in 1..4 : Deliver(0, n)
    \/ \E s \in Players : ClientRead(s)

Spec == Init /\ [][Next]_vars

\* SpecSlow: both clients connect and no stream fails; the first client
\* reads what it is sent, the second one never reads.  Every task of the
\* server runs when it can (the runtime schedules every ready task), and
\* so does the first client.
SlowTick == ticks < SlowTicks /\ Tick

RelayStep == RelayInit \/ Relay

SessionStep(s) ==
    Accept(s) \/ Handshake(s) \/ PollChanged(s) \/ Borrow(s) \/ WriteFrame(s)

NextSlow ==
    \/ SlowTick
    \/ RelayStep
    \/ \E s \in Players : SessionStep(s)
    \/ ClientRead(0)

\* SlowTick always has a successor that changes the state: this is
\* ENABLED <<SlowTick>>_vars.
SlowTickEnabled ==
    loop_state = "running" /\ ticks < SlowTicks /\ Len(world_chan) < MaxBacklog

\* WF_vars(SlowTick), written out.
FairSlowTick == []<>(~SlowTickEnabled) \/ []<><<SlowTick>>_vars

SpecSlow ==
    /\ Init
    /\ [][NextSlow]_vars
    /\ FairSlowTick
    /\ WF_vars(RelayStep)
    /\ \A s \in Players : WF_vars(SessionStep(s))
    /\ WF_vars(ClientRead(0))

\* ------------------------------------------------ claims on two sessions

\* The relay takes a snapshot from the game loop in this step.
RelayTakes ==
    /\ relay_state = "relaying"
    /\ world_chan # << >>
    /\ world_chan' = Tail(world_chan)

\* C7: with a client that never reads, the game loop still publishes every
\* tick, the relay still stores every snapshot in both slots, and the other
\* session still writes the newest snapshot to its client.
SlowConsumerIsolated ==
    /\ [][RelayTakes =>
            \A s \in Players : slot'[s] = [value |-> Head(world_chan), unseen |-> TRUE]]_vars
    /\ <>[](/\ ticks = SlowTicks
            /\ relay_state = "relaying"
            /\ \A s \in Players : slot[s].value.seq = SlowTicks
            /\ last_frame[0] = SlowTicks)

\* The second session is stuck in a write while the relay has stored a
\* newer snapshot in its slot and the first session has written the newest.
SlowConsumerStuck ==
    /\ WritePending(1)
    /\ out_frame[1].seq < slot[1].value.seq
    /\ last_frame[0] = SlowTicks

IntentsOf(s) == SelectSeq(key_chan, LAMBDA event : event.player_id = s)

\* What a closed session must leave alone in a step.
StaysClosed(s) ==
    /\ sess_state'[s] = "Closed"
    /\ keys_forwarded'[s] = keys_forwarded[s]
    /\ last_frame'[s] = last_frame[s]
    /\ rx'[s] = rx[s]
    /\ Len(tx'[s]) <= Len(tx[s])
    /\ Len(IntentsOf(s)') <= Len(IntentsOf(s))

\* What the step that closes session s must leave alone.
ClosesAlone(s) ==
    /\ UNCHANGED <<game_vars, key_chan, world_chan, relay_vars>>
    /\ sess_state'[1 - s] = sess_state[1 - s]
    /\ out_frame'[1 - s] = out_frame[1 - s]
    /\ read_buf'[1 - s] = read_buf[1 - s]

\* C8: an I/O error closes its session for good: a closed session stays
\* closed and reads, writes and forwards nothing more; the step that closes
\* it changes nothing of the game loop, the relay or the other session; the
\* game loop keeps running, and the relay keeps storing every snapshot in
\* the slot of a session that is not closed.
SessionErrorContained ==
    [][/\ \A s \in Players : sess_state[s] = "Closed" => StaysClosed(s)
       /\ \A s \in Players :
             (sess_state[s] # "Closed" /\ sess_state'[s] = "Closed") => ClosesAlone(s)
       /\ loop_state' = "running"
       /\ relay_state' # "ended"
       /\ RelayTakes =>
             \A s \in Players :
                 sess_state[s] # "Closed" =>
                     slot'[s] = [value |-> Head(world_chan), unseen |-> TRUE]]_vars

\* The first session closed with bytes of a key code unread; since then the
\* relay has stored, and the second session has written, a newer snapshot.
ClosedAndOtherStreaming ==
    /\ sess_state[0] = "Closed"
    /\ rx[0] # << >>
    /\ sess_state[1] = "Select"
    /\ last_frame[1] = MaxTicks
    /\ slot[0].value.seq < MaxTicks

\* ------------------------------------------------ claims on the tick's steps

\* The blocks of the sequence that the ball overlaps.
Overlapped(ball, blocks) ==
    {i \in DOMAIN blocks :
        is_ball_collided_with_object(ball, blocks[i].position, BLOCK_SIZE, BLOCK_SIZE)}

\* The first of them in the sequence; 0 if the ball overlaps none or is
\* removed before the block step.
FirstOverlapped(ball, blocks) ==
    IF ~InBounds(ball) \/ Overlapped(ball, blocks) = {} THEN 0
    ELSE CHOOSE i \in Overlapped(ball, blocks) :
            \A j \in Overlapped(ball, blocks) : i <= j

\* hits_life of the block at position in the sequence, 0 if it is absent.
HitsAt(blocks, position) ==
    IF \E j \in DOMAIN blocks : blocks[j].position = position
    THEN blocks[CHOOSE j \in DOMAIN blocks : blocks[j].position = position].hits_life
    ELSE 0

\* The ball overlaps no paddle and is at no wall: the block step sees the
\* velocity of the snapshot before.
UntouchedBeforeBlocks(ball, paddles) ==
    /\ ~AtWall(ball)
    /\ \A p \in DOMAIN paddles :
          ~is_ball_collided_with_object(ball, paddles[p].position,
                                        PADDLE_WIDTH, PADDLE_HEIGHT)

\* The velocity the first overlapped block gives the ball.
ReflectedBy(ball, block) ==
    IF Abs(ball.position.y - block.position.y) > Abs(ball.position.x - block.position.x)
    THEN Vec(ball.velocity.x, -ball.velocity.y)
    ELSE Vec(-ball.velocity.x, ball.velocity.y)

\* first[k] is FirstOverlapped of ball k of the snapshot before the tick.
OneBlockEach(first) ==
    /\ \A i \in DOMAIN world_data.blocks :
          HitsAt(world_data'.blocks, world_data.blocks[i].position)
              = (world_data.blocks[i].hits_life
                    - Cardinality({k \in DOMAIN first : first[k] = i})) % UsizeModulus
    /\ \A k \in DOMAIN first :
          (first[k] # 0 /\ UntouchedBeforeBlocks(world_data.balls[k], world_data'.paddles))
              => \E n \in DOMAIN world_data'.balls :
                    /\ world_data'.balls[n].id = world_data.balls[k].id
                    /\ world_data'.balls[n].velocity
                          = ReflectedBy(world_data.balls[k], world_data.blocks[first[k]])

\* C11: in a tick each ball changes at most one block: of the blocks it
\* overlaps at the block step only the first in the sequence loses a hit,
\* exactly one, and decides the axis of the reflection; every other block
\* keeps the hits it had.
OneBlockPerBall ==
    [][ticks' # ticks =>
          IF \A k \in DOMAIN world_data.balls :
                FirstOverlapped(world_data.balls[k], world_data.blocks) = 0
          THEN world_data'.blocks = world_data.blocks
          ELSE OneBlockEach([k \in DOMAIN world_data.balls |->
                    FirstOverlapped(world_data.balls[k], world_data.blocks)])]_vars

\* The position the ball had at the block step of the last tick.
Back(ball) ==
    [ball EXCEPT !.position = Vec(ball.position.x - (Integrate(ball).position.x - ball.position.x),
                                  ball.position.y - (Integrate(ball).position.y - ball.position.y))]

\* At the block step of the last tick a ball overlapped a block that is
\* still there with all its hits: another block came first.
SecondBlockSpared ==
    /\ ticks > 0
    /\ \E k \in DOMAIN world_data.balls, i \in DOMAIN world_data.blocks :
          /\ world_data.balls[k].is_free
          /\ world_data.blocks[i].hits_life = BLOCK_HITS_LIFE
          /\ is_ball_collided_with_object(Back(world_data.balls[k]),
                                          world_data.blocks[i].position,
                                          BLOCK_SIZE, BLOCK_SIZE)

\* The ball as create_world_data made it.
AsCreated(ball) ==
    \E k \in DOMAIN InitialBalls :
        /\ InitialBalls[k].id = ball.id
        /\ InitialBalls[k].position = ball.position
        /\ ball.velocity = Vec(0, 0)

BallsAtRest(w) ==
    \A k \in DOMAIN w.balls : ~w.balls[k].is_free => AsCreated(w.balls[k])

\* C12: in every published snapshot a ball that is not launched has
\* velocity (0,0) and the position create_world_data gave it, wherever the
\* paddles have been moved.
UnlaunchedBallsRest ==
    /\ BallsAtRest(world_data)
    /\ \A n \in DOMAIN world_chan : BallsAtRest(world_chan[n].world)

\* A relayed snapshot in which a paddle has been moved off its ball's
\* centre but still reaches under it, the ball not launched.
PaddleShiftedUnderBall ==
    /\ relay_state = "relaying"
    /\ \E k \in DOMAIN slot[0].value.world.balls,
          p \in DOMAIN slot[0].value.world.paddles :
          /\ ~slot[0].value.world.balls[k].is_free
          /\ slot[0].value.world.paddles[p].id = slot[0].value.world.balls[k].id
          /\ slot[0].value.world.paddles[p].position.x
                # slot[0].value.world.balls[k].position.x
          /\ Abs(slot[0].value.world.paddles[p].position.x
                    - slot[0].value.world.balls[k].position.x) < Half(PADDLE_WIDTH)

\* ------------------------------------------------ claims on the player id

\* The session writes item as the next item of its send stream in this step.
Writes(s, item) == tx'[s] = Append(tx[s], item)

\* Before its id byte is written a session has written and forwarded nothing.
NothingBeforeId(s) ==
    sess_state[s] \in {"NotAccepted", "Connecting"} =>
        /\ tx[s] = << >>
        /\ last_frame[s] = 0
        /\ keys_forwarded[s] = << >>
        /\ IntentsOf(s) = << >>

\* What a step may do to the id byte and the tags of session s.
IdStep(s) ==
    /\ Len(tx'[s]) > Len(tx[s]) =>
          IF sess_state[s] = "Connecting"
          THEN Writes(s, [kind |-> "id", id |-> s])
          ELSE tx'[s][Len(tx'[s])].kind = "frame"
    /\ sess_state'[s] = "Connecting" => sess_state[s] \in {"NotAccepted", "Connecting"}
    /\ keys_forwarded'[s] # keys_forwarded[s] =>
          /\ Len(key_chan') = Len(key_chan) + 1
          /\ key_chan'[Len(key_chan')].player_id = s

\* C13: each session writes its id byte once, first on its stream, before
\* any frame and any forwarded intent; the first connection accepted gets
\* id 0 and the second id 1; every intent carries the id of the session
\* that forwarded it, 0 or 1.
PlayerIdOnceAndFirst ==
    /\ [](/\ \A s \in Players : NothingBeforeId(s)
          /\ sess_state[1] # "NotAccepted" => sess_state[0] # "NotAccepted"
          /\ \A n \in DOMAIN key_chan : key_chan[n].player_id \in Players)
    /\ [][\A s \in Players : IdStep(s)]_vars

\* Both sessions have written their id bytes; one has forwarded an intent
\* and the other has written a frame.
BothIdsWritten ==
    /\ \A s \in Players : sess_state[s] = "Select"
    /\ keys_forwarded[0] # << >>
    /\ last_frame[1] > 0
    /\ tx[1][1] = [kind |-> "id", id |-> 1]

\* ------------------------------------------------ claims on Input Intake

\* A step that settles an owed event applies the oldest one.
AppliesOldest ==
    (owed # << >> /\ owed' = Tail(owed))
        => drain' = <<ApplyEvent(Working(world_data), Head(owed))>>

\* A tick is published once the channel is found empty, and settles nothing.
PublishesWhenEmpty ==
    ticks' # ticks => (key_chan = << >> /\ owed' = owed)

\* C14: every key event pushed is applied by exactly one tick, in the
\* order pushed, also when it is pushed during a drain: the events pushed
\* and not applied yet are the events waiting in the channel, each drain
\* step applies the oldest of them, and a tick completes once the channel
\* is found empty.
IntentsAppliedOnce ==
    /\ [](owed = key_chan)
    /\ [][AppliesOldest /\ PublishesWhenEmpty]_vars

\* ------------------------------------------------ claims on delivery

\* The session reads its slot in this step.
ReadsSlot(s) == sess_state[s] = "Changed" /\ sess_state'[s] = "Writing"

\* C15: a session whose client keeps reading eventually follows every
\* frame it has written by a frame of a later tick, as long as the game
\* loop has published one; the frame it writes is the value its slot held
\* when it read the slot, whatever snapshots it skipped.
EventuallyNewerFrame ==
    /\ \A n \in 1..(SlowTicks - 1) : (last_frame[0] = n) ~> (last_frame[0] > n)
    /\ [][\A s \in Players :
            /\ ReadsSlot(s) => out_frame'[s] = slot[s].value
            /\ WritesFrame(s) => Writes(s, FrameItem(out_frame[s]))]_vars

\* The first session is about to write a frame that skips a snapshot.
SkipsSnapshot ==
    /\ sess_state[0] = "Writing"
    /\ last_frame[0] > 0
    /\ out_frame[0].seq > last_frame[0] + 1

\* ------------------------------------------------ claims on the scenarios

\* Player 0's ball is launched and player 1's is not, nor about to be.
OnlyZeroLaunched ==
    /\ BallOf(0) # 0
    /\ world_data.balls[BallOf(0)].is_free
    /\ BallOf(1) # 0
    /\ ~world_data.balls[BallOf(1)].is_free
    /\ ~Queued(1, KEY_SPACE)

\* blocks without the block at position i.
WithoutBlock(blocks, i) ==
    [j \in 1..(Len(blocks) - 1) |-> IF j < i THEN blocks[j] ELSE blocks[j + 1]]

\* The tick takes the last hit of one block, publishes the others as they
\* were and sends player 0's ball back down.
FirstBlockGone ==
    /\ \E i \in DOMAIN world_data.blocks :
          /\ world_data.blocks[i].hits_life - 1 = 0
          /\ world_data'.blocks = WithoutBlock(world_data.blocks, i)
    /\ \E n \in DOMAIN world_data'.balls :
          /\ world_data'.balls[n].id = 0
          /\ world_data'.balls[n].velocity = Vec(0, Scale)

\* C16: scenario A.  When only player 0 has launched, its ball goes straight
\* up until the first tick in which it overlaps a block; that tick removes
\* exactly one block, whose hits reach 0, leaves every other block as it
\* was, and flips the ball's vertical velocity for the first time.
ScenarioA ==
    /\ []((OnlyZeroLaunched /\ world_data.blocks = InitialBlocks)
            => world_data.balls[BallOf(0)].velocity = Vec(0, -Scale))
    /\ [][(/\ ticks' # ticks
           /\ OnlyZeroLaunched
           /\ world_data.blocks = InitialBlocks
           /\ Overlapped(world_data.balls[BallOf(0)], world_data.blocks) # {})
              => FirstBlockGone]_vars

\* Player 0's ball has hit its first block and player 1's ball still rests.
FirstBlockRemoved ==
    /\ ticks > 0
    /\ BallOf(1) # 0
    /\ ~world_data.balls[BallOf(1)].is_free
    /\ Len(world_data.blocks) = Len(InitialBlocks) - 1
    /\ BallOf(0) # 0
    /\ world_data.balls[BallOf(0)].velocity = Vec(0, Scale)

\* No ball of w is launched and every ball has velocity (0,0).
AllAtRest(w) ==
    \A k \in DOMAIN w.balls :
        ~w.balls[k].is_free /\ w.balls[k].velocity = Vec(0, 0)

\* The game loop publishes a snapshot in this step.
Publishes == Len(world_chan') = Len(world_chan) + 1

\* C17: a tick that drains no intent, on a snapshot whose balls are all
\* un-launched and at rest, publishes that snapshot again: the same blocks
\* in the same order, the same paddles, the same balls.
EmptyTickIdempotent ==
    [][(Publishes /\ key_chan = << >> /\ AllAtRest(world_data))
          => /\ world_chan'[Len(world_chan')].world = world_data
             /\ world_data' = world_data]_vars

\* Two consecutive snapshots, the relayed one and the one after it, are
\* equal with a paddle moved away from where it was created.
RepeatedSnapshot ==
    /\ relay_state = "relaying"
    /\ key_chan = << >>
    /\ world_chan # << >>
    /\ world_chan[1].world = slot[0].value.world
    /\ AllAtRest(world_chan[1].world)
    /\ world_chan[1].world.paddles # InitialPaddles

\* Move intents of player p with key code k waiting for the next drain.
Waiting(p, k) ==
    Cardinality({i \in DOMAIN key_chan :
                    key_chan[i].player_id = p /\ key_chan[i].key_code = k})

\* x brought back between the walls by half a paddle width.
Clamped(x) ==
    IF x - Half(PADDLE_WIDTH) <= 0 THEN Half(PADDLE_WIDTH)
    ELSE IF x + Half(PADDLE_WIDTH) >= WORLD_WIDTH * Scale
    THEN WORLD_WIDTH * Scale - Half(PADDLE_WIDTH)
    ELSE x

\* x of player p's paddle in world w.
PaddleX(w, p) == w.paddles[PositionOf(w.paddles, p)].position.x

\* The tick moves each paddle by 5 units per intent of its player, to the
\* right or to the left, and clamps afterwards.
ShiftsByFive ==
    \A p \in Players :
        PaddleX(world_data', p)
            = Clamped(PaddleX(world_data, p)
                        + 5 * Scale * (Waiting(p, KEY_RIGHT) - Waiting(p, KEY_LEFT)))

\* C18: scenario B.  Each move intent shifts its player's paddle by 5 units
\* before clamping; after one KEY_RIGHT of player 0 in each of 60
\* consecutive ticks paddle 0 is at min(x_start + 300, WORLD_WIDTH -
\* PADDLE_WIDTH / 2) and paddle 1 is where it was.
ScenarioB ==
    /\ []((x_start # 0 /\ ticks = 60)
            => /\ PaddleX(world_data, 0)
                    = IF x_start + 300 * Scale < WORLD_WIDTH * Scale - Half(PADDLE_WIDTH)
                      THEN x_start + 300 * Scale
                      ELSE WORLD_WIDTH * Scale - Half(PADDLE_WIDTH)
               /\ PaddleX(world_data, 1) = PaddleX(create_world_data, 1))
    /\ [][Publishes => ShiftsByFive]_vars

\* The second of ticks is over and the right wall has stopped the paddle
\* short of x_start + 300.
StoppedAtRightWall ==
    /\ x_start # 0
    /\ ticks = 60
    /\ x_start < WORLD_WIDTH * Scale - Half(PADDLE_WIDTH)
    /\ x_start + 300 * Scale > WORLD_WIDTH * Scale - Half(PADDLE_WIDTH)
    /\ PaddleX(world_data, 0) = WORLD_WIDTH * Scale - Half(PADDLE_WIDTH)

\* ------------------------------------------------ claims on the walls

\* The ball's left edge is at or past the left wall, or its right edge at
\* or past the right wall.
EdgeAtWall(ball) ==
    \/ ball.position.x - BALL_RADIUS * Scale <= 0
    \/ ball.position.x + BALL_RADIUS * Scale >= WORLD_WIDTH * Scale

\* The ball is launched and, in the tick that follows, nothing but the wall
\* step can change its velocity: it overlaps no paddle and no block.
OnlyWalls(ball) ==
    /\ ball.is_free
    /\ Overlapped(ball, world_data.blocks) = {}
    /\ \A p \in DOMAIN world_data'.paddles :
          ~is_ball_collided_with_object(ball, world_data'.paddles[p].position,
                                        PADDLE_WIDTH, PADDLE_HEIGHT)

\* C19: the wall step of a tick inverts a ball's horizontal velocity
\* exactly when an edge of the ball is at or past a wall, equality
\* included, the same way at both walls.
WallsReflectAtEdges ==
    [][ticks' # ticks =>
          \A k \in DOMAIN world_data.balls, n \in DOMAIN world_data'.balls :
              (/\ world_data'.balls[n].id = world_data.balls[k].id
               /\ OnlyWalls(world_data.balls[k]))
                  => world_data'.balls[n].velocity.x
                        = IF EdgeAtWall(world_data.balls[k])
                          THEN -world_data.balls[k].velocity.x
                          ELSE world_data.balls[k].velocity.x]_vars

\* The ball's top edge is at or above the top wall, or its bottom edge at
\* or beyond the bottom wall.
EdgeOutOfBounds(ball) ==
    \/ ball.position.y - BALL_RADIUS * Scale <= 0
    \/ ball.position.y + BALL_RADIUS * Scale >= WORLD_HEIGHT * Scale

\* C20: a tick removes a ball of the snapshot before it exactly when the
\* ball's top edge is at or above the top wall or its bottom edge at or
\* beyond the bottom wall; the test comes before integration, on the
\* position the last snapshot shows, and nothing else removes a ball.
RemovedAtEdges ==
    [][ticks' # ticks =>
          \A k \in DOMAIN world_data.balls :
              (world_data.balls[k].id \notin BallIds(world_data'))
                  <=> EdgeOutOfBounds(world_data.balls[k])]_vars

\* ------------------------------------------------ claims on the intents

\* The drain loop applies the oldest waiting intent in this step.
AppliesIntent == owed # << >> /\ owed' = Tail(owed)

\* Every paddle but player p's is as it was; p's own has changed in x at
\* most, and only for a move key.
PaddlesFramed(before, after, p, key_code) ==
    /\ DOMAIN after = DOMAIN before
    /\ \A i \in DOMAIN before :
          /\ after[i].id = before[i].id
          /\ after[i].position.y = before[i].position.y
          /\ (before[i].id # p \/ key_code \notin {KEY_LEFT, KEY_RIGHT})
                => after[i] = before[i]

\* Every ball but player p's is as it was; p's own changes only for a
\* launch key while it is not launched, and then to velocity (0,-1) and
\* launched, its position kept.
BallsFramed(before, after, p, key_code) ==
    /\ DOMAIN after = DOMAIN before
    /\ \A i \in DOMAIN before :
          IF before[i].id = p /\ key_code = KEY_SPACE /\ ~before[i].is_free
          THEN after[i] = [ id |-> before[i].id,
                            position |-> before[i].position,
                            velocity |-> Vec(0, -Scale),
                            is_free |-> TRUE ]
          ELSE after[i] = before[i]

\* C21: applying an intent of player p changes p's paddle only (a move
\* key) or p's ball only (the launch key): the other player's paddle and
\* ball and the blocks are untouched; a launch of a launched ball changes
\* nothing, a launch of a resting ball sets velocity (0,-1) and launched
\* and leaves the position alone.
IntentFrame ==
    [][AppliesIntent =>
          /\ drain' # << >>
          /\ ~drain'[1].panicked
          /\ world_data' = world_data
          /\ PaddlesFramed(Working(world_data).paddles, drain'[1].paddles,
                           Head(owed).player_id, Head(owed).key_code)
          /\ BallsFramed(Working(world_data).balls, drain'[1].balls,
                         Head(owed).player_id, Head(owed).key_code)]_vars

\* The drain has applied a move key of player 1: its paddle has moved,
\* player 0's paddle and both balls are as they were; player 0's ball was
\* launched in an earlier tick and a launch key of player 0 is next.
RelaunchWaiting ==
    /\ drain # << >>
    /\ PaddleX(drain[1], 1) # PaddleX(world_data, 1)
    /\ PaddleX(drain[1], 0) = PaddleX(world_data, 0)
    /\ drain[1].balls = world_data.balls
    /\ BallOf(0) # 0
    /\ world_data.balls[BallOf(0)].is_free
    /\ key_chan # << >>
    /\ Head(key_chan) = [player_id |-> 0, key_code |-> KEY_SPACE]

=============================================================================
